---- MODULE Spec2Model ----
(***************************************************************************)
(* Model of the conformance probes under examples/ and of the evaluation   *)
(* engine they drive.  One probe script is selected at start-up; each      *)
(* script exercises one component of the evaluator: chained comparison,    *)
(* generator lifecycle, augmented assignment, structural pattern matching  *)
(* and comprehension scope inside a class body.                            *)
(***************************************************************************)
EXTENDS Integers, Sequences, FiniteSets, TLC

(* ---------------------------------------------------------------------- *)
(* Bounds                                                                  *)
(* ---------------------------------------------------------------------- *)
MaxCalls == 4
MaxChain == 3
MaxVal == 3
MaxLen == 2
MaxSeq == 3

(* ---------------------------------------------------------------------- *)
(* State                                                                   *)
(* ---------------------------------------------------------------------- *)
VARIABLES
    script,     \* the probe script being run
    out,        \* side-effect trace: what the script and the engine have emitted
    body,       \* generator: name of the generator function whose frame this is
    gstate,     \* generator: frame state tag
    pc,         \* generator: instruction pointer / saved resume point
    exc,        \* generator: exception in flight inside the body ("none" if none)
    pending,    \* generator: exception parked while a finally block runs
    call,       \* generator: the caller's operation in progress ("none" if idle)
    outcome,    \* generator: outcome recorded with Completed
    ncalls,     \* generator: number of operations the caller has issued
    operands,   \* comparison: the operand values of the chain, o1..on
    ops,        \* comparison: the operators of the chain, OP1..OP(n-1)
    stack,      \* comparison: the operand values evaluated and still held
    nloaded,    \* comparison: how many operand expressions have been evaluated
    result,     \* comparison: value of the chain ("none" until decided)
    cpc,        \* comparison: position in the print(... < ... < ...) statement
    heap,       \* assignment: contents of the List objects, by identity
    env,        \* assignment: module-level bindings, name -> Value
    apc,        \* assignment: position in the script
    lits,       \* assignment: contents of the two list literals of the script
    tgt,        \* assignment: evaluated container and index of a subscript target
    cur,        \* assignment: current Value of the target
    rhs,        \* assignment: Value of the right-hand side
    new,        \* assignment: Value to store back into the target
    err,        \* assignment: exception raised by the statement ("none" if none)
    steps,      \* assignment: what the augmented assignment has done so far, in order
    fn,         \* match: the function called, classify or a variant of it
    subject,    \* match: the subject Value
    midx,       \* match: index of the case to try next
    tried,      \* match: indices of the cases tried so far, in order
    chosen,     \* match: index of the case committed to (0 if none)
    binds,      \* match: the names a and b in the function's Environment
    ran,        \* match: the actions executed so far, in order
    mresult,    \* match: the function's return value
    mpc,        \* match: position in the script
    form,       \* scope: the comprehension written in the class body
    scopes,     \* scope: the Environments created so far, by number
    here,       \* scope: number of the Environment code is running in
    iter,       \* scope: the iterable of the for-clause being entered
    clause,     \* scope: index of the for-clause being run
    acc,        \* scope: the elements the comprehension has produced
    cerr,       \* scope: error raised by the script ("none" if none)
    kpc         \* scope: position in the script

genvars == <<body, gstate, pc, exc, pending, call, outcome, ncalls>>
cmpvars == <<operands, ops, stack, nloaded, result, cpc>>
augvars == <<heap, env, apc, lits, tgt, cur, rhs, new, err, steps>>
matchvars == <<fn, subject, midx, tried, chosen, binds, ran, mresult, mpc>>
scopevars == <<form, scopes, here, iter, clause, acc, cerr, kpc>>
vars == <<script, out, genvars, cmpvars, augvars, matchvars, scopevars>>
NotGen == <<cmpvars, augvars, matchvars, scopevars>>
NotCmp == <<genvars, augvars, matchvars, scopevars>>
NotAug == <<genvars, cmpvars, matchvars, scopevars>>
NotMatch == <<genvars, cmpvars, augvars, scopevars>>
NotScope == <<genvars, cmpvars, augvars, matchvars>>

Ev(ev, x) == [ev |-> ev, x |-> x]

(* ---------------------------------------------------------------------- *)
(* Generator bodies, as instruction lists with an exception table          *)
(* ---------------------------------------------------------------------- *)
Instr(op, s, n) == [op |-> op, s |-> s, n |-> n]
Try(from, to, kind, cls, target) ==
    [from |-> from, to |-> to, kind |-> kind, cls |-> cls, target |-> target]

\* lifecycle_gen with the handler written for the wrong exception class.
lifecycle_gen_wrong_class ==
    [code  |-> << Instr("YIELD", "start", 0),
                  Instr("JUMP", "", 4),
                  Instr("YIELD", "caught", 0),
                  Instr("PRINT", "cleaned up", 0),
                  Instr("ENDFINALLY", "", 0),
                  Instr("RETURN", "", 0) >>,
     table |-> << Try(1, 2, "except", "KeyError", 3),
                  Try(1, 3, "finally", "", 4) >>]

\* lifecycle_gen with a handler that takes every exception.
lifecycle_gen_catch_all ==
    [code  |-> << Instr("YIELD", "start", 0),
                  Instr("JUMP", "", 4),
                  Instr("YIELD", "caught", 0),
                  Instr("PRINT", "cleaned up", 0),
                  Instr("ENDFINALLY", "", 0),
                  Instr("RETURN", "", 0) >>,
     table |-> << Try(1, 2, "except", "BaseException", 3),
                  Try(1, 3, "finally", "", 4) >>]

\* lifecycle_gen with the finally written around the try body only, so that
\* the handler runs outside it.
lifecycle_gen_handler_unprotected ==
    [code  |-> << Instr("YIELD", "start", 0),
                  Instr("JUMP", "", 4),
                  Instr("YIELD", "caught", 0),
                  Instr("PRINT", "cleaned up", 0),
                  Instr("ENDFINALLY", "", 0),
                  Instr("RETURN", "", 0) >>,
     table |-> << Try(1, 2, "except", "ValueError", 3),
                  Try(1, 2, "finally", "", 4) >>]

\* def lifecycle_gen():
\*     try:                      1: yield "start"
\*         yield "start"         2: (try body done) jump to finally
\*     except ValueError:        3: yield "caught"
\*         yield "caught"        4: print("cleaned up")
\*     finally:                  5: end of finally: re-raise parked exception
\*         print("cleaned up")   6: return
lifecycle_gen ==
    [code  |-> << Instr("YIELD", "start", 0),
                  Instr("JUMP", "", 4),
                  Instr("YIELD", "caught", 0),
                  Instr("PRINT", "cleaned up", 0),
                  Instr("ENDFINALLY", "", 0),
                  Instr("RETURN", "", 0) >>,
     table |-> << Try(1, 2, "except", "ValueError", 3),
                  Try(1, 3, "finally", "", 4) >>]

\* A body that operates on its own generator object while it is running:
\*     yield "a"; <op>(self); yield "b"
reenter_gen ==
    [code  |-> << Instr("YIELD", "a", 0),
                  Instr("REENTER", "", 0),
                  Instr("YIELD", "b", 0),
                  Instr("RETURN", "", 0) >>,
     table |-> << >>]

\* A body that yields again while the termination signal unwinds it:
\*     try: yield "start"
\*     finally: yield "again"
stubborn_gen ==
    [code  |-> << Instr("YIELD", "start", 0),
                  Instr("YIELD", "again", 0),
                  Instr("ENDFINALLY", "", 0),
                  Instr("RETURN", "", 0) >>,
     table |-> << Try(1, 1, "finally", "", 2) >>]

\* A body with two finally blocks active at its yield:
\*     try:
\*         try: yield "start"
\*         finally: print("inner")
\*     finally: print("outer")
nested_gen ==
    [code  |-> << Instr("YIELD", "start", 0),
                  Instr("PRINT", "inner", 0),
                  Instr("ENDFINALLY", "", 0),
                  Instr("PRINT", "outer", 0),
                  Instr("ENDFINALLY", "", 0),
                  Instr("RETURN", "", 0) >>,
     table |-> << Try(1, 1, "finally", "", 2),
                  Try(1, 3, "finally", "", 4) >>]

GenFunctions == {"lifecycle_gen", "reenter_gen", "stubborn_gen", "nested_gen"}

BodyOf(f) ==
    CASE f = "lifecycle_gen" -> lifecycle_gen
      [] f = "reenter_gen"   -> reenter_gen
      [] f = "stubborn_gen"  -> stubborn_gen
      [] f = "nested_gen"    -> nested_gen

Exceptions == {"ValueError", "KeyError"}
ReenterOps == {"advance", "throw", "close"}

(* ---------------------------------------------------------------------- *)
(* Generator State Machine                                                 *)
(* ---------------------------------------------------------------------- *)
GenIdle ==
    /\ body = "none" /\ gstate = "None" /\ pc = 0 /\ exc = "none"
    /\ pending = "none" /\ call = "none" /\ outcome = "none" /\ ncalls = 0

\* Does table entry t protect instruction p against exception e?  An
\* "except C" entry takes only exceptions of class C ("BaseException" being
\* the class of everything); a finally entry takes everything, the
\* termination signal included.
Covers(t, p, e) ==
    /\ t.from <= p /\ p <= t.to
    /\ \/ t.kind = "finally"
       \/ t.kind = "except" /\ t.cls \in {e, "BaseException"}

\* Handler search from the outside in: the outermost protecting entry wins.
HandlerIdxOutermost(f, p, e) ==
    LET tb == BodyOf(f).table
        S == {i \in 1..Len(tb) : Covers(tb[i], p, e)}
    IN  IF S = {} THEN 0 ELSE CHOOSE i \in S : \A j \in S : i >= j

\* Innermost entry protecting p against e (0 if none): entries are listed
\* innermost first.
HandlerIdx(f, p, e) ==
    LET tb == BodyOf(f).table
        S == {i \in 1..Len(tb) : Covers(tb[i], p, e)}
    IN  IF S = {} THEN 0 ELSE CHOOSE i \in S : \A j \in S : i <= j

CurInstr == BodyOf(body).code[pc]

AtInstr(op) ==
    /\ script = "generator_lifecycle"
    /\ gstate = "Running" /\ exc = "none"
    /\ pc \in 1..Len(BodyOf(body).code)
    /\ CurInstr.op = op

CallerIdle ==
    /\ script = "generator_lifecycle"
    /\ call = "none" /\ ncalls < MaxCalls

\* g = f() that runs the body at once, up to its first yield.
GenCallEager(f) ==
    /\ script = "generator_lifecycle"
    /\ gstate = "None"
    /\ body' = f
    /\ gstate' = "Suspended"
    /\ pc' = 1
    /\ out' = Append(out, Ev("create", f))
    /\ UNCHANGED <<script, exc, pending, call, outcome, ncalls>>
    /\ UNCHANGED NotGen

\* g = f(): the frame is created, nothing of the body runs.
GenCall(f) ==
    /\ script = "generator_lifecycle"
    /\ gstate = "None"
    /\ body' = f
    /\ gstate' = "NotStarted"
    /\ out' = Append(out, Ev("create", f))
    /\ UNCHANGED <<script, pc, exc, pending, call, outcome, ncalls>>
    /\ UNCHANGED NotGen

\* advance() on a frame that is NotStarted or Suspended: enter the body.
AdvanceEnter ==
    /\ CallerIdle
    /\ gstate \in {"NotStarted", "Suspended"}
    /\ pc' = pc + 1
    /\ gstate' = "Running"
    /\ call' = "advance"
    /\ ncalls' = ncalls + 1
    /\ out' = Append(out, Ev("call", "advance"))
    /\ UNCHANGED <<script, body, exc, pending, outcome>>
    /\ UNCHANGED NotGen

\* advance() on a Completed frame as a silent no-op.
AdvanceCompletedSilent ==
    /\ CallerIdle
    /\ gstate = "Completed"
    /\ ncalls' = ncalls + 1
    /\ out' = out \o <<Ev("call", "advance")>>
    /\ UNCHANGED <<script, body, gstate, pc, exc, pending, call, outcome>>
    /\ UNCHANGED NotGen

\* advance() on a Completed frame: the exhausted-generator condition.
AdvanceCompleted ==
    /\ CallerIdle
    /\ gstate = "Completed"
    /\ ncalls' = ncalls + 1
    /\ out' = out \o <<Ev("call", "advance"), Ev("raise", "StopIteration")>>
    /\ UNCHANGED <<script, body, gstate, pc, exc, pending, call, outcome>>
    /\ UNCHANGED NotGen

\* throw(e) on a Suspended frame: e is raised at the suspended yield.
ThrowSuspended(e) ==
    /\ CallerIdle
    /\ gstate = "Suspended"
    /\ gstate' = "Running"
    /\ exc' = e
    /\ call' = "throw"
    /\ ncalls' = ncalls + 1
    /\ out' = Append(out, Ev("call", "throw " \o e))
    /\ UNCHANGED <<script, body, pc, pending, outcome>>
    /\ UNCHANGED NotGen

\* throw(e) on a frame that has not started: e is raised before the first
\* statement, so no handler of the body is active and the frame completes.
ThrowNotStarted(e) ==
    /\ CallerIdle
    /\ gstate = "NotStarted"
    /\ gstate' = "Completed"
    /\ outcome' = e
    /\ ncalls' = ncalls + 1
    /\ out' = out \o <<Ev("call", "throw " \o e), Ev("raise", e)>>
    /\ UNCHANGED <<script, body, pc, exc, pending, call>>
    /\ UNCHANGED NotGen

\* throw(e) on a Completed frame: e comes straight back to the caller.
ThrowCompleted(e) ==
    /\ CallerIdle
    /\ gstate = "Completed"
    /\ ncalls' = ncalls + 1
    /\ out' = out \o <<Ev("call", "throw " \o e), Ev("raise", e)>>
    /\ UNCHANGED <<script, body, gstate, pc, exc, pending, call, outcome>>
    /\ UNCHANGED NotGen

\* close() on a Suspended frame: the termination signal is raised at the
\* suspended yield.
CloseSuspended ==
    /\ CallerIdle
    /\ gstate = "Suspended"
    /\ gstate' = "Running"
    /\ exc' = "GeneratorExit"
    /\ call' = "close"
    /\ ncalls' = ncalls + 1
    /\ out' = Append(out, Ev("call", "close"))
    /\ UNCHANGED <<script, body, pc, pending, outcome>>
    /\ UNCHANGED NotGen

\* close() that marks a frame finished even if it never started.
CloseNoopFinishes ==
    /\ CallerIdle
    /\ gstate \in {"NotStarted", "Completed"}
    /\ gstate' = "Completed"
    /\ ncalls' = ncalls + 1
    /\ out' = out \o <<Ev("call", "close"), Ev("return", "close")>>
    /\ UNCHANGED <<script, body, pc, exc, pending, call, outcome>>
    /\ UNCHANGED NotGen

\* close() on a NotStarted or Completed frame: nothing happens.
CloseNoop ==
    /\ CallerIdle
    /\ gstate \in {"NotStarted", "Completed"}
    /\ ncalls' = ncalls + 1
    /\ out' = out \o <<Ev("call", "close"), Ev("return", "close")>>
    /\ UNCHANGED <<script, body, gstate, pc, exc, pending, call, outcome>>
    /\ UNCHANGED NotGen

\* Normal completion reported as a plain return to every operation.
ReturnEventQuiet(c) == Ev("return", c)

\* What the caller's operation reports when the frame completes normally.
ReturnEvent(c) ==
    IF c = "close" THEN Ev("return", "close") ELSE Ev("raise", "StopIteration")

\* What the caller's operation reports when exception e leaves the body.
PropagateEvent(c, e) ==
    IF c = "close" /\ e = "GeneratorExit" THEN Ev("return", "close")
    ELSE Ev("raise", e)

\* A yield reported as a yielded value whatever operation is in progress.
YieldEventPlain(c, v) == Ev("yield", v)

\* What the caller's operation reports when the body yields value v.
YieldEvent(c, v) ==
    IF c = "close" THEN Ev("raise", "GeneratorProtocolViolation")
    ELSE Ev("yield", v)

\* The body reaches a yield: the frame is suspended there.
StepYield ==
    /\ AtInstr("YIELD")
    /\ gstate' = "Suspended"
    /\ call' = "none"
    /\ out' = Append(out, YieldEvent(call, CurInstr.s))
    /\ UNCHANGED <<script, body, pc, exc, pending, outcome, ncalls>>
    /\ UNCHANGED NotGen

StepJump ==
    /\ AtInstr("JUMP")
    /\ pc' = CurInstr.n
    /\ UNCHANGED <<script, out, body, gstate, exc, pending, call, outcome, ncalls>>
    /\ UNCHANGED NotGen

StepPrint ==
    /\ AtInstr("PRINT")
    /\ out' = Append(out, Ev("print", CurInstr.s))
    /\ pc' = pc + 1
    /\ UNCHANGED <<script, body, gstate, exc, pending, call, outcome, ncalls>>
    /\ UNCHANGED NotGen

\* End of a finally block: a parked exception resumes its propagation.
StepEndFinally ==
    /\ AtInstr("ENDFINALLY")
    /\ IF pending = "none"
       THEN /\ pc' = pc + 1
            /\ UNCHANGED <<exc, pending>>
       ELSE /\ exc' = pending
            /\ pending' = "none"
            /\ UNCHANGED pc
    /\ UNCHANGED <<script, out, body, gstate, call, outcome, ncalls>>
    /\ UNCHANGED NotGen

\* The body runs past its end.
StepReturn ==
    /\ AtInstr("RETURN")
    /\ gstate' = "Completed"
    /\ outcome' = "normal"
    /\ call' = "none"
    /\ out' = Append(out, ReturnEvent(call))
    /\ UNCHANGED <<script, body, pc, exc, pending, ncalls>>
    /\ UNCHANGED NotGen

\* A re-entrant operation let into the running frame: the body goes on.
StepReenterEnters(op) ==
    /\ AtInstr("REENTER")
    /\ pc' = pc + 1
    /\ out' = Append(out, Ev("call", op))
    /\ UNCHANGED <<script, body, gstate, exc, pending, call, outcome, ncalls>>
    /\ UNCHANGED NotGen

\* The body operates on its own generator while the frame is Running: the
\* operation is rejected with an error raised at the calling instruction.
StepReenter(op) ==
    /\ AtInstr("REENTER")
    /\ exc' = "ValueError"
    /\ out' = Append(out, Ev("rejected", op))
    /\ UNCHANGED <<script, body, gstate, pc, pending, call, outcome, ncalls>>
    /\ UNCHANGED NotGen

\* An exception in flight finds a handler of the body.
StepCatch ==
    /\ script = "generator_lifecycle"
    /\ gstate = "Running" /\ exc # "none"
    /\ HandlerIdx(body, pc, exc) # 0
    /\ LET t == BodyOf(body).table[HandlerIdx(body, pc, exc)]
       IN  /\ pc' = t.target
           /\ pending' = IF t.kind = "finally" THEN exc ELSE pending
    /\ exc' = "none"
    /\ UNCHANGED <<script, out, body, gstate, call, outcome, ncalls>>
    /\ UNCHANGED NotGen

\* An exception in flight finds no handler: it leaves the body.
StepPropagate ==
    /\ script = "generator_lifecycle"
    /\ gstate = "Running" /\ exc # "none"
    /\ HandlerIdx(body, pc, exc) = 0
    /\ gstate' = "Completed"
    /\ outcome' = exc
    /\ exc' = "none"
    /\ call' = "none"
    /\ out' = Append(out, PropagateEvent(call, exc))
    /\ UNCHANGED <<script, body, pc, pending, ncalls>>
    /\ UNCHANGED NotGen

GenNext ==
    \/ \E f \in GenFunctions : GenCall(f)
    \/ AdvanceEnter
    \/ AdvanceCompleted
    \/ \E e \in Exceptions : ThrowSuspended(e)
    \/ \E e \in Exceptions : ThrowNotStarted(e)
    \/ \E e \in Exceptions : ThrowCompleted(e)
    \/ CloseSuspended
    \/ CloseNoop
    \/ StepYield
    \/ StepJump
    \/ StepPrint
    \/ StepEndFinally
    \/ StepReturn
    \/ \E op \in ReenterOps : StepReenter(op)
    \/ StepCatch
    \/ StepPropagate

(* ---------------------------------------------------------------------- *)
(* Comparison Evaluator: print(trace(o1) OP1 trace(o2) OP2 ... trace(on))  *)
(* ---------------------------------------------------------------------- *)
CmpOps == {"<", ">", "=="}

CmpIdle ==
    /\ operands = << >> /\ ops = << >> /\ stack = << >>
    /\ nloaded = 0 /\ result = "none" /\ cpc = "idle"

\* The relational operators.
Holds(op, x, y) ==
    CASE op = "<"  -> x < y
      [] op = ">"  -> x > y
      [] op = "==" -> x = y

\* def trace(val): print(f"load {val}"); return val
trace(val) ==
    [out |-> Append(out, Ev("print", "load " \o ToString(val))), ret |-> val]

\* The statement starts on a chain of n >= 2 operands.
CmpBegin(vs, os) ==
    /\ script = "chained_compare"
    /\ cpc = "idle"
    /\ Len(vs) >= 2 /\ Len(os) = Len(vs) - 1
    /\ operands' = vs
    /\ ops' = os
    /\ cpc' = "load"
    /\ UNCHANGED <<script, out, stack, nloaded, result>>
    /\ UNCHANGED NotCmp

\* The next operand expression is evaluated: trace(o) is called.
CmpLoad ==
    /\ script = "chained_compare"
    /\ cpc = "load"
    /\ LET r == trace(operands[nloaded + 1])
       IN  /\ out' = r.out
           /\ stack' = Append(stack, r.ret)
    /\ nloaded' = nloaded + 1
    /\ cpc' = IF nloaded + 1 >= 2 THEN "compare" ELSE "load"
    /\ UNCHANGED <<script, operands, ops, result>>
    /\ UNCHANGED NotCmp

\* CmpCompare without the short circuit: a false comparison is only acted on
\* once every operand has been evaluated.
CmpCompareEager ==
    /\ script = "chained_compare"
    /\ cpc = "compare"
    /\ IF nloaded < Len(operands)
       THEN /\ stack' = << stack[2] >>
            /\ cpc' = "load"
            /\ UNCHANGED result
       ELSE /\ result' = IF Holds(ops[nloaded - 1], stack[1], stack[2])
                         THEN "True" ELSE "False"
            /\ cpc' = "print"
            /\ stack' = << >>
    /\ UNCHANGED <<script, out, operands, ops, nloaded>>
    /\ UNCHANGED NotCmp

\* CmpCompare that keeps the left operand of a comparison that held, so the
\* next operator is applied to the first operand again.
CmpCompareKeepFirst ==
    /\ script = "chained_compare"
    /\ cpc = "compare"
    /\ IF ~Holds(ops[nloaded - 1], stack[1], stack[2])
       THEN /\ result' = "False"
            /\ cpc' = "print"
            /\ stack' = << >>
       ELSE IF nloaded = Len(operands)
       THEN /\ result' = "True"
            /\ cpc' = "print"
            /\ stack' = << >>
       ELSE /\ stack' = << stack[1] >>
            /\ cpc' = "load"
            /\ UNCHANGED result
    /\ UNCHANGED <<script, out, operands, ops, nloaded>>
    /\ UNCHANGED NotCmp

\* The operator is applied to the two most recently evaluated operands; a
\* false comparison decides the chain, a true one lets it go on.
CmpCompare ==
    /\ script = "chained_compare"
    /\ cpc = "compare"
    /\ IF ~Holds(ops[nloaded - 1], stack[1], stack[2])
       THEN /\ result' = "False"
            /\ cpc' = "print"
            /\ stack' = << >>
       ELSE IF nloaded = Len(operands)
       THEN /\ result' = "True"
            /\ cpc' = "print"
            /\ stack' = << >>
       ELSE /\ stack' = << stack[2] >>
            /\ cpc' = "load"
            /\ UNCHANGED result
    /\ UNCHANGED <<script, out, operands, ops, nloaded>>
    /\ UNCHANGED NotCmp

\* print(<value of the chain>)
CmpPrint ==
    /\ script = "chained_compare"
    /\ cpc = "print"
    /\ out' = Append(out, Ev("print", result))
    /\ cpc' = "done"
    /\ UNCHANGED <<script, operands, ops, stack, nloaded, result>>
    /\ UNCHANGED NotCmp

RECURSIVE SeqsUpTo(_, _)
\* All sequences over S of length at most n.
SeqsUpTo(S, n) ==
    IF n = 0 THEN { << >> }
    ELSE LET shorter == SeqsUpTo(S, n - 1)
         IN  shorter \cup { Append(q, x) : q \in shorter, x \in S }

CmpNext ==
    \/ /\ cpc = "idle" /\ script = "chained_compare"
       /\ \E vs \in SeqsUpTo(1..MaxVal, MaxChain), os \in SeqsUpTo(CmpOps, MaxChain - 1) :
             CmpBegin(vs, os)
    \/ CmpLoad
    \/ CmpCompare
    \/ CmpPrint

(* ---------------------------------------------------------------------- *)
(* Assignment/Mutation Resolver: tgt += [..]                            *)
(* ---------------------------------------------------------------------- *)
None == [t |-> "None", id |-> 0, items |-> << >>]
\* A List is known by its identity; its contents live in the heap.
List(id) == [t |-> "List", id |-> id, items |-> << >>]
\* A Tuple is an immutable sequence of Values.
Tuple(items) == [t |-> "Tuple", id |-> 0, items |-> items]

\* An integer is known by its number.
Num(n) == [t |-> "Int", id |-> n, items |-> << >>]
\* An object with attributes.
Object(id) == [t |-> "Object", id |-> id, items |-> << >>]

\* The slots of the Environment; "o.x" is attribute x of the object o.
Names == {"l1", "l2", "t", "count", "o", "o.x"}

AugIdle ==
    /\ heap = << >>
    /\ env = [n \in Names |-> None]
    /\ apc = "idle"
    /\ lits = [xs |-> << >>, ys |-> << >>]
    /\ tgt = [cont |-> None, idx |-> 0]
    /\ cur = None /\ rhs = None /\ new = None
    /\ err = "none"
    /\ steps = << >>

\* The integers the scripts' list literals are made of.
LitElems == {1, 2, 10, 20}

AugScripts == {"list_aug_assign", "tuple_assign", "loops", "attr_aug_assign"}

\* while count < 5:
LoopLimit == 5

\* The augmented assignment of the script: l1 += [..], t[0] += [..],
\* count += 1 or o.x += [..].
AugStmt ==
    CASE script = "list_aug_assign" ->
            [kind |-> "name", name |-> "l1", idx |-> 0, slot |-> "l1"]
      [] script = "tuple_assign" ->
            [kind |-> "subscript", name |-> "t", idx |-> 0, slot |-> "t"]
      [] script = "loops" ->
            [kind |-> "name", name |-> "count", idx |-> 0, slot |-> "count"]
      [] OTHER ->
            [kind |-> "attribute", name |-> "o", idx |-> 0, slot |-> "o.x"]

RECURSIVE JoinInts(_)
JoinInts(xs) ==
    IF xs = << >> THEN ""
    ELSE IF Len(xs) = 1 THEN ToString(xs[1])
    ELSE ToString(xs[1]) \o ", " \o JoinInts(Tail(xs))

\* repr() of a List of integers with contents xs.
ReprList(xs) == "[" \o JoinInts(xs) \o "]"

\* repr() of a Value: a List, or a Tuple of Lists.
Repr(v, h) ==
    IF v.t = "List" THEN ReprList(h[v.id])
    ELSE IF v.t = "Tuple" /\ Len(v.items) = 1
    THEN "(" \o ReprList(h[v.items[1].id]) \o ",)"
    ELSE "None"

\* The script starts; the contents of its list literals are fixed.
AugBegin(xs, ys) ==
    /\ script \in AugScripts
    /\ apc = "idle"
    /\ lits' = [xs |-> xs, ys |-> ys]
    /\ IF script = "tuple_assign"
       THEN out' = Append(out, Ev("print", "--- Tuple List Aug-Assign ---"))
       ELSE UNCHANGED out
    /\ apc' = "bind"
    /\ UNCHANGED <<script, heap, env, tgt, cur, rhs, new, err, steps>>
    /\ UNCHANGED NotAug

\* l1 = [..],  t = ([..],),  count = 0,  o.x = [..]
AugBind ==
    /\ script \in AugScripts
    /\ apc = "bind"
    /\ CASE script = "list_aug_assign" ->
              /\ heap' = Append(heap, lits.xs)
              /\ env' = [env EXCEPT !["l1"] = List(Len(heap) + 1)]
              /\ apc' = "alias"
         [] script = "tuple_assign" ->
              /\ heap' = Append(heap, lits.xs)
              /\ env' = [env EXCEPT !["t"] = Tuple(<< List(Len(heap) + 1) >>)]
              /\ apc' = "aug_target"
         [] script = "loops" ->
              /\ env' = [env EXCEPT !["count"] = Num(0)]
              /\ apc' = "while"
              /\ UNCHANGED heap
         [] OTHER ->
              /\ heap' = Append(heap, lits.xs)
              /\ env' = [env EXCEPT !["o"] = Object(1),
                                    !["o.x"] = List(Len(heap) + 1)]
              /\ apc' = "aug_target"
    /\ UNCHANGED <<script, out, lits, tgt, cur, rhs, new, err, steps>>
    /\ UNCHANGED NotAug

\* while count < 5:
LoopTest ==
    /\ script = "loops"
    /\ apc = "while"
    /\ apc' = IF env["count"].id < LoopLimit THEN "print_count" ELSE "done"
    /\ UNCHANGED <<script, out, heap, env, lits, tgt, cur, rhs, new, err, steps>>
    /\ UNCHANGED NotAug

\* print(f"count = {count}")
LoopPrint ==
    /\ script = "loops"
    /\ apc = "print_count"
    /\ out' = Append(out, Ev("print", "count = " \o ToString(env["count"].id)))
    /\ apc' = "aug_target"
    /\ UNCHANGED <<script, heap, env, lits, tgt, cur, rhs, new, err, steps>>
    /\ UNCHANGED NotAug

\* l2 = l1
AugAlias ==
    /\ script = "list_aug_assign"
    /\ apc = "alias"
    /\ env' = [env EXCEPT !["l2"] = env["l1"]]
    /\ apc' = "aug_target"
    /\ UNCHANGED <<script, out, heap, lits, tgt, cur, rhs, new, err, steps>>
    /\ UNCHANGED NotAug

\* Step 1: the target is evaluated to its current Value.  For a subscript
\* the container and the index, for an attribute the container, are
\* evaluated here, once, and kept in tgt for the store.
AugEvalTarget ==
    /\ script \in AugScripts
    /\ apc = "aug_target"
    /\ CASE AugStmt.kind = "name" ->
              /\ cur' = env[AugStmt.name]
              /\ steps' = << "load" >>
              /\ UNCHANGED tgt
         [] AugStmt.kind = "subscript" ->
              /\ tgt' = [cont |-> env[AugStmt.name], idx |-> AugStmt.idx]
              /\ cur' = env[AugStmt.name].items[AugStmt.idx + 1]
              /\ steps' = << "container", "index", "load" >>
         [] OTHER ->
              /\ tgt' = [cont |-> env[AugStmt.name], idx |-> 0]
              /\ cur' = env[AugStmt.slot]
              /\ steps' = << "container", "load" >>
    /\ apc' = "aug_value"
    /\ UNCHANGED <<script, out, heap, env, lits, rhs, new, err>>
    /\ UNCHANGED NotAug

\* The right-hand side is evaluated: a list literal to a fresh List, the
\* literal 1 to an integer.
AugEvalValue ==
    /\ script \in AugScripts
    /\ apc = "aug_value"
    /\ IF script = "loops"
       THEN /\ rhs' = Num(1)
            /\ UNCHANGED heap
       ELSE /\ heap' = Append(heap, lits.ys)
            /\ rhs' = List(Len(heap) + 1)
    /\ steps' = Append(steps, "value")
    /\ apc' = "aug_combine"
    /\ UNCHANGED <<script, out, env, lits, tgt, cur, new, err>>
    /\ UNCHANGED NotAug

\* Step 2 done as l = l + [..]: the combination goes into a fresh List.
AugCombineFresh ==
    /\ script \in AugScripts
    /\ apc = "aug_combine"
    /\ cur.t = rhs.t /\ cur.t \in {"List", "Int"}
    /\ IF cur.t = "List"
       THEN /\ heap' = Append(heap, heap[cur.id] \o heap[rhs.id])
            /\ new' = List(Len(heap) + 1)
       ELSE /\ new' = Num(cur.id + rhs.id)
            /\ UNCHANGED heap
    /\ steps' = Append(steps, "combine")
    /\ apc' = "aug_store"
    /\ UNCHANGED <<script, out, env, lits, tgt, cur, rhs, err>>
    /\ UNCHANGED NotAug

\* Steps 2 and 3: a List is combined in place and the new value is the same
\* List; an integer has no in-place operation and the new value is the sum.
AugCombine ==
    /\ script \in AugScripts
    /\ apc = "aug_combine"
    /\ cur.t = rhs.t /\ cur.t \in {"List", "Int"}
    /\ IF cur.t = "List"
       THEN /\ heap' = [heap EXCEPT ![cur.id] = @ \o heap[rhs.id]]
            /\ new' = cur
       ELSE /\ new' = Num(cur.id + rhs.id)
            /\ UNCHANGED heap
    /\ steps' = Append(steps, "combine")
    /\ apc' = "aug_store"
    /\ UNCHANGED <<script, out, env, lits, tgt, cur, rhs, err>>
    /\ UNCHANGED NotAug

\* Step 4 with the failed store into a Tuple passed over in silence.
AugStoreSwallow ==
    /\ script \in AugScripts
    /\ apc = "aug_store"
    /\ CASE AugStmt.kind = "name" ->
              /\ env' = [env EXCEPT ![AugStmt.slot] = new]
              /\ apc' = IF script = "loops" THEN "while" ELSE "print_is"
              /\ UNCHANGED err
         [] AugStmt.kind = "subscript" ->
              /\ tgt.cont.t = "Tuple"
              /\ apc' = "except"
              /\ UNCHANGED <<env, err>>
         [] OTHER ->
              /\ tgt.cont.t = "Object"
              /\ env' = [env EXCEPT ![AugStmt.slot] = new]
              /\ apc' = "print_attr"
              /\ UNCHANGED err
    /\ steps' = Append(steps, "store")
    /\ UNCHANGED <<script, out, heap, lits, tgt, cur, rhs, new>>
    /\ UNCHANGED NotAug

\* Step 4 done as the plain assignment target = new: the container and the
\* index of the target are evaluated again for the store.
AugStoreReevaluates ==
    /\ script \in AugScripts
    /\ apc = "aug_store"
    /\ CASE AugStmt.kind = "name" ->
              /\ env' = [env EXCEPT ![AugStmt.slot] = new]
              /\ apc' = IF script = "loops" THEN "while" ELSE "print_is"
              /\ steps' = Append(steps, "store")
              /\ UNCHANGED err
         [] AugStmt.kind = "subscript" ->
              /\ env[AugStmt.name].t = "Tuple"
              /\ err' = "TypeError"
              /\ apc' = "except"
              /\ steps' = steps \o << "container", "index", "store" >>
              /\ UNCHANGED env
         [] OTHER ->
              /\ env[AugStmt.name].t = "Object"
              /\ env' = [env EXCEPT ![AugStmt.slot] = new]
              /\ apc' = "print_attr"
              /\ steps' = steps \o << "container", "store" >>
              /\ UNCHANGED err
    /\ UNCHANGED <<script, out, heap, lits, tgt, cur, rhs, new>>
    /\ UNCHANGED NotAug

\* Step 4: the new value is stored into the target's slot, found through
\* the container and index kept from step 1.  A name is rebound, an
\* attribute is set; an element of a Tuple cannot be assigned: TypeError.
AugStore ==
    /\ script \in AugScripts
    /\ apc = "aug_store"
    /\ CASE AugStmt.kind = "name" ->
              /\ env' = [env EXCEPT ![AugStmt.slot] = new]
              /\ apc' = IF script = "loops" THEN "while" ELSE "print_is"
              /\ UNCHANGED err
         [] AugStmt.kind = "subscript" ->
              /\ tgt.cont.t = "Tuple"
              /\ err' = "TypeError"
              /\ apc' = "except"
              /\ UNCHANGED env
         [] OTHER ->
              /\ tgt.cont.t = "Object"
              /\ env' = [env EXCEPT ![AugStmt.slot] = new]
              /\ apc' = "print_attr"
              /\ UNCHANGED err
    /\ steps' = Append(steps, "store")
    /\ UNCHANGED <<script, out, heap, lits, tgt, cur, rhs, new>>
    /\ UNCHANGED NotAug

\* try: ... except TypeError: ... except Exception as e: ... else: ...
AugExcept ==
    /\ script = "tuple_assign"
    /\ apc = "except"
    /\ out' = Append(out, Ev("print",
                 CASE err = "TypeError" -> "Success: TypeError caught"
                   [] err = "none"      -> "Failure: No error raised"
                   [] OTHER             -> "Failure: Wrong error " \o err))
    /\ err' = "none"
    /\ apc' = "print_state"
    /\ UNCHANGED <<script, heap, env, lits, tgt, cur, rhs, new, steps>>
    /\ UNCHANGED NotAug

\* print(f"State: {t}")
AugPrintState ==
    /\ script = "tuple_assign"
    /\ apc = "print_state"
    /\ out' = Append(out, Ev("print", "State: " \o Repr(env["t"], heap)))
    /\ apc' = "done"
    /\ UNCHANGED <<script, heap, env, lits, tgt, cur, rhs, new, err, steps>>
    /\ UNCHANGED NotAug

\* print(l1 is l2)
AugPrintIs ==
    /\ script = "list_aug_assign"
    /\ apc = "print_is"
    /\ out' = Append(out, Ev("print",
                 IF env["l1"].t = "List" /\ env["l1"] = env["l2"]
                 THEN "True" ELSE "False"))
    /\ apc' = "print_l1"
    /\ UNCHANGED <<script, heap, env, lits, tgt, cur, rhs, new, err, steps>>
    /\ UNCHANGED NotAug

\* print(o.x)
AugPrintAttr ==
    /\ script = "attr_aug_assign"
    /\ apc = "print_attr"
    /\ out' = Append(out, Ev("print", Repr(env["o.x"], heap)))
    /\ apc' = "done"
    /\ UNCHANGED <<script, heap, env, lits, tgt, cur, rhs, new, err, steps>>
    /\ UNCHANGED NotAug

\* print(l1); print(l2)
AugPrintList ==
    /\ script = "list_aug_assign"
    /\ apc \in {"print_l1", "print_l2"}
    /\ out' = Append(out, Ev("print",
                 Repr(env[IF apc = "print_l1" THEN "l1" ELSE "l2"], heap)))
    /\ apc' = IF apc = "print_l1" THEN "print_l2" ELSE "done"
    /\ UNCHANGED <<script, heap, env, lits, tgt, cur, rhs, new, err, steps>>
    /\ UNCHANGED NotAug

AugNext ==
    \/ /\ apc = "idle" /\ script \in AugScripts
       /\ \E xs \in SeqsUpTo(LitElems, MaxLen), ys \in SeqsUpTo(LitElems, MaxLen) :
             /\ script = "loops" => (xs = << >> /\ ys = << >>)
             /\ AugBegin(xs, ys)
    \/ AugBind
    \/ AugAlias
    \/ LoopTest
    \/ LoopPrint
    \/ AugPrintAttr
    \/ AugEvalTarget
    \/ AugEvalValue
    \/ AugCombine
    \/ AugStore
    \/ AugExcept
    \/ AugPrintState
    \/ AugPrintIs
    \/ AugPrintList

(* ---------------------------------------------------------------------- *)
(* Pattern Matcher: print(classify(value))                                 *)
(* ---------------------------------------------------------------------- *)
NoneV == [t |-> "None", n |-> 0, s |-> "", items |-> << >>]
IntV(n) == [t |-> "Int", n |-> n, s |-> "", items |-> << >>]
StrV(s) == [t |-> "Str", n |-> 0, s |-> s, items |-> << >>]
ListV(xs) == [t |-> "List", n |-> 0, s |-> "", items |-> xs]
TupleV(xs) == [t |-> "Tuple", n |-> 0, s |-> "", items |-> xs]

Case(kind, literals, names, action) ==
    [kind |-> kind, literals |-> literals, names |-> names, action |-> action]

\* def classify(value):
\*     match value:
\*         case 0 | 1:  return "small"
\*         case [a, b]: return a + b
\*         case _:      return "other"
classify ==
    << Case("LiteralSet", {IntV(0), IntV(1)}, << >>, "small"),
       Case("SequenceDestructure", {}, <<"a", "b">>, "a+b"),
       Case("Wildcard", {}, << >>, "other") >>

\* classify without its last case: a match with no Wildcard.
classify_strict ==
    << Case("LiteralSet", {IntV(0), IntV(1)}, << >>, "small"),
       Case("SequenceDestructure", {}, <<"a", "b">>, "a+b") >>

MatchFunctions == {"classify", "classify_strict"}

CasesOf(f) == IF f = "classify" THEN classify ELSE classify_strict

\* The Values handed to classify.
Subjects ==
    {IntV(n) : n \in 0..MaxVal}
    \cup {StrV(s) : s \in {"x", "ab"}}
    \cup {ListV(xs) : xs \in SeqsUpTo(1..MaxVal, MaxSeq)}
    \cup {TupleV(xs) : xs \in SeqsUpTo(1..MaxVal, MaxSeq)}

MatchIdle ==
    /\ fn = "none" /\ subject = NoneV /\ midx = 0 /\ tried = << >>
    /\ chosen = 0 /\ binds = [a |-> NoneV, b |-> NoneV] /\ ran = << >>
    /\ mresult = NoneV /\ mpc = "idle"

\* Matches that lets a SequenceDestructure take Lists only.
MatchesListOnly(c, v) ==
    CASE c.kind = "LiteralSet" -> v \in c.literals
      [] c.kind = "SequenceDestructure" ->
            v.t = "List" /\ Len(v.items) = Len(c.names)
      [] c.kind = "Wildcard" -> TRUE

\* Does case c match subject v?
Matches(c, v) ==
    CASE c.kind = "LiteralSet" -> v \in c.literals
      [] c.kind = "SequenceDestructure" ->
            v.t \in {"List", "Tuple"} /\ Len(v.items) = Len(c.names)
      [] c.kind = "Wildcard" -> TRUE

\* The names a case binds on matching v.
Bind(c, v, b) ==
    IF c.kind = "SequenceDestructure"
    THEN [a |-> IntV(v.items[1]), b |-> IntV(v.items[2])]
    ELSE b

\* The value an action returns.
RunAction(action, b) ==
    CASE action = "small" -> StrV("small")
      [] action = "a+b"   -> IntV(b.a.n + b.b.n)
      [] action = "other" -> StrV("other")

\* str() of a returned Value, as print shows it.
Show(v) ==
    CASE v.t = "Int" -> ToString(v.n)
      [] v.t = "Str" -> v.s
      [] OTHER       -> "None"

\* classify(v) is called.
MatchBegin(f, v) ==
    /\ script = "match"
    /\ mpc = "idle"
    /\ fn' = f
    /\ subject' = v
    /\ midx' = 1
    /\ mpc' = "match"
    /\ UNCHANGED <<script, out, tried, chosen, binds, ran, mresult>>
    /\ UNCHANGED NotMatch

\* MatchTry that goes on trying after a match: the last match wins.
MatchTryLastWins ==
    /\ script = "match"
    /\ mpc = "match"
    /\ midx <= Len(CasesOf(fn))
    /\ tried' = Append(tried, midx)
    /\ IF Matches(CasesOf(fn)[midx], subject)
       THEN /\ chosen' = midx
            /\ binds' = Bind(CasesOf(fn)[midx], subject, binds)
       ELSE UNCHANGED <<chosen, binds>>
    /\ IF midx = Len(CasesOf(fn)) /\ chosen' # 0
       THEN /\ mpc' = "action"
            /\ UNCHANGED midx
       ELSE /\ midx' = midx + 1
            /\ UNCHANGED mpc
    /\ UNCHANGED <<script, out, fn, subject, ran, mresult>>
    /\ UNCHANGED NotMatch

\* The next case is tried against the subject; the first that matches is
\* committed to and its names are bound.
MatchTry ==
    /\ script = "match"
    /\ mpc = "match"
    /\ midx <= Len(CasesOf(fn))
    /\ tried' = Append(tried, midx)
    /\ IF Matches(CasesOf(fn)[midx], subject)
       THEN /\ chosen' = midx
            /\ binds' = Bind(CasesOf(fn)[midx], subject, binds)
            /\ mpc' = "action"
            /\ UNCHANGED midx
       ELSE /\ midx' = midx + 1
            /\ UNCHANGED <<chosen, binds, mpc>>
    /\ UNCHANGED <<script, out, fn, subject, ran, mresult>>
    /\ UNCHANGED NotMatch

\* The action of the committed case runs: return ...
MatchAction ==
    /\ script = "match"
    /\ mpc = "action"
    /\ ran' = Append(ran, CasesOf(fn)[chosen].action)
    /\ mresult' = RunAction(CasesOf(fn)[chosen].action, binds)
    /\ mpc' = "print"
    /\ UNCHANGED <<script, out, fn, subject, midx, tried, chosen, binds>>
    /\ UNCHANGED NotMatch

\* MatchFallThrough that treats an unmatched subject as an error.
MatchFallThroughRaises ==
    /\ script = "match"
    /\ mpc = "match"
    /\ midx > Len(CasesOf(fn))
    /\ out' = Append(out, Ev("raise", "MatchError"))
    /\ mpc' = "done"
    /\ UNCHANGED <<script, fn, subject, midx, tried, chosen, binds, ran, mresult>>
    /\ UNCHANGED NotMatch

\* No case matched: the match statement does nothing and the function
\* falls off its end, returning None.
MatchFallThrough ==
    /\ script = "match"
    /\ mpc = "match"
    /\ midx > Len(CasesOf(fn))
    /\ mresult' = NoneV
    /\ mpc' = "print"
    /\ UNCHANGED <<script, out, fn, subject, midx, tried, chosen, binds, ran>>
    /\ UNCHANGED NotMatch

\* print(classify(..))
MatchPrint ==
    /\ script = "match"
    /\ mpc = "print"
    /\ out' = Append(out, Ev("print", Show(mresult)))
    /\ mpc' = "done"
    /\ UNCHANGED <<script, fn, subject, midx, tried, chosen, binds, ran, mresult>>
    /\ UNCHANGED NotMatch

MatchNext ==
    \/ /\ mpc = "idle" /\ script = "match"
       /\ \E f \in MatchFunctions, v \in Subjects : MatchBegin(f, v)
    \/ MatchTry
    \/ MatchAction
    \/ MatchFallThrough
    \/ MatchPrint

(* ---------------------------------------------------------------------- *)
(* Scope Resolver: a comprehension in the body of class A                  *)
(* ---------------------------------------------------------------------- *)
Unbound == [t |-> "Unbound", n |-> 0, s |-> "", items |-> << >>]

\* An expression: a name, or a literal.
Ref(name) == [kind |-> "ref", name |-> name]
Lit(s) == [kind |-> "lit", name |-> s]
NoExpr == [kind |-> "none", name |-> ""]

\* for <var> in [<src>]
For(var, src) == [var |-> var, src |-> src]
Comp(elt, clauses, cond) == [elt |-> elt, clauses |-> clauses, cond |-> cond]

\* result = [x for x in [val]]
result_comp == Comp(Ref("x"), << For("x", Ref("val")) >>, NoExpr)

\* The same class body with val used elsewhere in the comprehension:
\*     [val for x in ["lit"]]
\*     [x for x in ["lit"] if val]
\*     [x for y in ["lit"] for x in [val]]
elt_comp == Comp(Ref("val"), << For("x", Lit("lit")) >>, NoExpr)
cond_comp == Comp(Ref("x"), << For("x", Lit("lit")) >>, Ref("val"))
inner_comp == Comp(Ref("x"), << For("y", Lit("lit")), For("x", Ref("val")) >>, NoExpr)

Comps == {result_comp, elt_comp, cond_comp, inner_comp}

ScopeNames == {"val", "x", "y", "result"}
NoVars == [n \in ScopeNames |-> Unbound]
Scope(kind, parent, vs) == [kind |-> kind, parent |-> parent, vars |-> vs]

ScopeIdle ==
    /\ form = result_comp /\ scopes = << >> /\ here = 0 /\ iter = << >>
    /\ clause = 0 /\ acc = << >> /\ cerr = "none" /\ kpc = "idle"

RECURSIVE LookupFromAll(_, _, _, _)
\* Name resolution that consults every enclosing Environment, class bodies
\* included.
LookupFromAll(sc, id, name, own) ==
    IF id = 0 THEN Unbound
    ELSE IF sc[id].vars[name] # Unbound
    THEN sc[id].vars[name]
    ELSE LookupFromAll(sc, sc[id].parent, name, FALSE)

RECURSIVE LookupFrom(_, _, _, _)
\* Name resolution from Environment id outward.  The Environment the code
\* runs in is always consulted (own = TRUE); on the way out through the
\* enclosing links, class-body Environments are passed over.
LookupFrom(sc, id, name, own) ==
    IF id = 0 THEN Unbound
    ELSE IF (own \/ sc[id].kind # "class") /\ sc[id].vars[name] # Unbound
    THEN sc[id].vars[name]
    ELSE LookupFrom(sc, sc[id].parent, name, FALSE)

\* Value of expression e evaluated with Environment id active.
Eval(e, sc, id) ==
    IF e.kind = "lit" THEN StrV(e.name) ELSE LookupFrom(sc, id, e.name, TRUE)

\* The script starts: the module Environment exists; g tells whether the
\* module itself binds a name val.
ScopeBegin(c, g) ==
    /\ script = "class_comp_iterable"
    /\ kpc = "idle"
    /\ form' = c
    /\ scopes' = << Scope("module", 0,
                      [NoVars EXCEPT !["val"] = IF g THEN StrV("global") ELSE Unbound]) >>
    /\ here' = 1
    /\ kpc' = "class"
    /\ UNCHANGED <<script, out, iter, clause, acc, cerr>>
    /\ UNCHANGED NotScope

\* class A:
ScopeClassEnter ==
    /\ script = "class_comp_iterable"
    /\ kpc = "class"
    /\ scopes' = Append(scopes, Scope("class", here, NoVars))
    /\ here' = Len(scopes) + 1
    /\ kpc' = "assign"
    /\ UNCHANGED <<script, out, form, iter, clause, acc, cerr>>
    /\ UNCHANGED NotScope

\* val = "success"
ScopeAssignVal ==
    /\ script = "class_comp_iterable"
    /\ kpc = "assign"
    /\ scopes' = [scopes EXCEPT ![here].vars["val"] = StrV("success")]
    /\ kpc' = "outer_iter"
    /\ UNCHANGED <<script, out, form, here, iter, clause, acc, cerr>>
    /\ UNCHANGED NotScope

\* How a step that evaluated expression e to v goes on: an unresolved name
\* ends the script with NameError.
Unresolved(v) == v = Unbound
Fail ==
    /\ cerr' = "NameError"
    /\ out' = Append(out, Ev("raise", "NameError"))
    /\ kpc' = "done"

\* The first iterable evaluated like the rest of the comprehension, as code
\* nested in the class body: the class body's own names are passed over.
ScopeOuterIterNested ==
    /\ script = "class_comp_iterable"
    /\ kpc = "outer_iter"
    /\ LET e == form.clauses[1].src
           v == IF e.kind = "lit" THEN StrV(e.name)
                ELSE LookupFrom(scopes, here, e.name, FALSE)
       IN  IF Unresolved(v)
           THEN Fail /\ UNCHANGED iter
           ELSE /\ iter' = << v >>
                /\ kpc' = "enter"
                /\ UNCHANGED <<out, cerr>>
    /\ UNCHANGED <<script, form, scopes, here, clause, acc>>
    /\ UNCHANGED NotScope

\* The iterable of the first for-clause is evaluated where the
\* comprehension is written, before the private Environment exists.
ScopeOuterIter ==
    /\ script = "class_comp_iterable"
    /\ kpc = "outer_iter"
    /\ LET v == Eval(form.clauses[1].src, scopes, here)
       IN  IF Unresolved(v)
           THEN Fail /\ UNCHANGED iter
           ELSE /\ iter' = << v >>
                /\ kpc' = "enter"
                /\ UNCHANGED <<out, cerr>>
    /\ UNCHANGED <<script, form, scopes, here, clause, acc>>
    /\ UNCHANGED NotScope

\* The comprehension's private Environment is entered.
ScopeEnter ==
    /\ script = "class_comp_iterable"
    /\ kpc = "enter"
    /\ scopes' = Append(scopes, Scope("function", here, NoVars))
    /\ here' = Len(scopes) + 1
    /\ clause' = 1
    /\ kpc' = "bind"
    /\ UNCHANGED <<script, out, form, iter, acc, cerr>>
    /\ UNCHANGED NotScope

\* for <var> in ...: the clause's variable is bound in the private
\* Environment.
ScopeBind ==
    /\ script = "class_comp_iterable"
    /\ kpc = "bind"
    /\ scopes' = [scopes EXCEPT ![here].vars[form.clauses[clause].var] = iter[1]]
    /\ kpc' = IF clause < Len(form.clauses) THEN "inner_iter"
              ELSE IF form.cond # NoExpr THEN "cond" ELSE "elt"
    /\ UNCHANGED <<script, out, form, here, iter, clause, acc, cerr>>
    /\ UNCHANGED NotScope

\* The iterable of a later for-clause is evaluated in the private
\* Environment.
ScopeInnerIter ==
    /\ script = "class_comp_iterable"
    /\ kpc = "inner_iter"
    /\ LET v == Eval(form.clauses[clause + 1].src, scopes, here)
       IN  IF Unresolved(v)
           THEN Fail /\ UNCHANGED <<iter, clause>>
           ELSE /\ iter' = << v >>
                /\ clause' = clause + 1
                /\ kpc' = "bind"
                /\ UNCHANGED <<out, cerr>>
    /\ UNCHANGED <<script, form, scopes, here, acc>>
    /\ UNCHANGED NotScope

\* The if-condition is evaluated in the private Environment.
ScopeCond ==
    /\ script = "class_comp_iterable"
    /\ kpc = "cond"
    /\ LET v == Eval(form.cond, scopes, here)
       IN  IF Unresolved(v)
           THEN Fail
           ELSE /\ kpc' = IF v.s # "" THEN "elt" ELSE "exit"
                /\ UNCHANGED <<out, cerr>>
    /\ UNCHANGED <<script, form, scopes, here, iter, clause, acc>>
    /\ UNCHANGED NotScope

\* The element expression is evaluated in the private Environment.
ScopeElt ==
    /\ script = "class_comp_iterable"
    /\ kpc = "elt"
    /\ LET v == Eval(form.elt, scopes, here)
       IN  IF Unresolved(v)
           THEN Fail /\ UNCHANGED acc
           ELSE /\ acc' = Append(acc, v)
                /\ kpc' = "exit"
                /\ UNCHANGED <<out, cerr>>
    /\ UNCHANGED <<script, form, scopes, here, iter, clause>>
    /\ UNCHANGED NotScope

\* The comprehension is done: result = [...] binds result in the class body.
ScopeExit ==
    /\ script = "class_comp_iterable"
    /\ kpc = "exit"
    /\ here' = scopes[here].parent
    /\ scopes' = [scopes EXCEPT ![scopes[here].parent].vars["result"] = ListV(acc)]
    /\ kpc' = "print"
    /\ UNCHANGED <<script, out, form, iter, clause, acc, cerr>>
    /\ UNCHANGED NotScope

\* print(result[0])
ScopePrint ==
    /\ script = "class_comp_iterable"
    /\ kpc = "print"
    /\ LET r == Eval(Ref("result"), scopes, here)
       IN  out' = Append(out, Ev("print", Show(r.items[1])))
    /\ kpc' = "done"
    /\ UNCHANGED <<script, form, scopes, here, iter, clause, acc, cerr>>
    /\ UNCHANGED NotScope

ScopeNext ==
    \/ \E c \in Comps, g \in BOOLEAN : ScopeBegin(c, g)
    \/ ScopeClassEnter
    \/ ScopeAssignVal
    \/ ScopeOuterIter
    \/ ScopeEnter
    \/ ScopeBind
    \/ ScopeInnerIter
    \/ ScopeCond
    \/ ScopeElt
    \/ ScopeExit
    \/ ScopePrint

(* ---------------------------------------------------------------------- *)
(* Specification                                                           *)
(* ---------------------------------------------------------------------- *)
Scripts == {"chained_compare", "generator_lifecycle", "list_aug_assign", "tuple_assign", "match",
            "class_comp_iterable", "loops", "attr_aug_assign"}

Init ==
    /\ script \in Scripts
    /\ out = << >>
    /\ GenIdle
    /\ CmpIdle
    /\ AugIdle
    /\ MatchIdle
    /\ ScopeIdle

Next ==
    \/ CmpNext
    \/ GenNext
    \/ AugNext
    \/ MatchNext
    \/ ScopeNext

Spec == Init /\ [][Next]_vars

(* ---------------------------------------------------------------------- *)
(* Properties                                                              *)
(* ---------------------------------------------------------------------- *)
IsCall(e) == e.ev = "call"
\* The operations the caller has issued so far, in order.
Calls == SelectSeq(out, IsCall)
CallSeq(names) == [i \in 1..Len(names) |-> Ev("call", names[i])]
Last(s) == s[Len(s)]
\* The event a step appends first, if it appends any.
Emits(e) == Len(out') > Len(out) /\ out'[Len(out) + 1] = e

IsLoad(e) == \E v \in 1..MaxVal : e = Ev("print", "load " \o ToString(v))
\* The operand loads observed so far, in order.
Loads == SelectSeq(out, IsLoad)
\* The loads of operands o1..ok, each once, left to right.
LoadsOf(k) == [i \in 1..k |-> Ev("print", "load " \o ToString(operands[i]))]
\* Index of the first adjacent comparison that fails (0 if all hold).
FirstFail ==
    LET F == {i \in 1..Len(ops) : ~Holds(ops[i], operands[i], operands[i + 1])}
    IN  IF F = {} THEN 0 ELSE CHOOSE i \in F : \A j \in F : i <= j

\* C1: the operand loads of a chained comparison are a left-to-right prefix
\* of o1..on, each operand loaded at most once; when comparison i is the first
\* to fail the loads end up exactly o1..o(i+1) and nothing after o(i+1) is
\* ever loaded; when none fails all n are loaded.  3 < 2 < 1 loads 3, 2 and
\* prints False; 1 < 2 < 3 loads 1, 2, 3 and prints True.
C1_LoadsArePrefixUpToFirstFailure ==
    (script = "chained_compare" /\ cpc # "idle") =>
        /\ \E k \in 0..Len(operands) : Loads = LoadsOf(k)
        /\ FirstFail # 0 => Len(Loads) <= FirstFail + 1
        /\ result # "none" =>
              Loads = LoadsOf(IF FirstFail = 0 THEN Len(operands) ELSE FirstFail + 1)
        /\ (cpc = "done" /\ operands = <<3, 2, 1>> /\ ops = <<"<", "<">>) =>
              out = << Ev("print", "load 3"), Ev("print", "load 2"),
                       Ev("print", "False") >>
        /\ (cpc = "done" /\ operands = <<1, 2, 3>> /\ ops = <<"<", "<">>) =>
              out = << Ev("print", "load 1"), Ev("print", "load 2"),
                       Ev("print", "load 3"), Ev("print", "True") >>

C1_Witness ==
    /\ script = "chained_compare" /\ cpc = "done"
    /\ operands = <<3, 2, 1>> /\ ops = <<"<", "<">>
    /\ result = "False" /\ nloaded = 2

\* C2: on lifecycle_gen, advance() returns "start" and leaves the frame
\* Suspended; throw(ValueError) is then caught by the body's handler, returns
\* "caught" and leaves the frame Suspended again; the next advance() prints
\* "cleaned up", then signals exhaustion, and the frame is Completed.
C2_ThrowCaughtThenCleanup ==
    (script = "generator_lifecycle" /\ body = "lifecycle_gen" /\ call = "none") =>
        /\ Calls = CallSeq(<<"advance">>) =>
              /\ out = << Ev("create", "lifecycle_gen"),
                          Ev("call", "advance"), Ev("yield", "start") >>
              /\ gstate = "Suspended"
        /\ Calls = CallSeq(<<"advance", "throw ValueError">>) =>
              /\ out = << Ev("create", "lifecycle_gen"),
                          Ev("call", "advance"), Ev("yield", "start"),
                          Ev("call", "throw ValueError"), Ev("yield", "caught") >>
              /\ gstate = "Suspended"
        /\ Calls = CallSeq(<<"advance", "throw ValueError", "advance">>) =>
              /\ out = << Ev("create", "lifecycle_gen"),
                          Ev("call", "advance"), Ev("yield", "start"),
                          Ev("call", "throw ValueError"), Ev("yield", "caught"),
                          Ev("call", "advance"), Ev("print", "cleaned up"),
                          Ev("raise", "StopIteration") >>
              /\ gstate = "Completed"

C2_Witness ==
    /\ script = "generator_lifecycle" /\ body = "lifecycle_gen" /\ call = "none"
    /\ Calls = CallSeq(<<"advance", "throw ValueError", "advance">>)
    /\ gstate = "Completed"

\* C3: close() on lifecycle_gen Suspended at its first yield does not run the
\* ValueError handler ("caught" is never yielded), runs the finally block
\* ("cleaned up" is printed), returns without raising, and the frame is
\* Completed.
C3_CloseRunsFinallyOnly ==
    (/\ script = "generator_lifecycle" /\ body = "lifecycle_gen" /\ call = "none"
     /\ Calls = CallSeq(<<"advance", "close">>)) =>
        /\ out = << Ev("create", "lifecycle_gen"),
                    Ev("call", "advance"), Ev("yield", "start"),
                    Ev("call", "close"), Ev("print", "cleaned up"),
                    Ev("return", "close") >>
        /\ gstate = "Completed"

C3_Witness ==
    /\ script = "generator_lifecycle" /\ body = "lifecycle_gen" /\ call = "none"
    /\ Calls = CallSeq(<<"advance", "close">>)
    /\ Last(out) = Ev("return", "close")

\* C4: t = ([..],); t[0] += [..] raises TypeError to the script, and the List
\* inside t has nevertheless been extended in place: the script's handler
\* reports the TypeError and afterwards t is the same one-element Tuple whose
\* List carries the old contents followed by the added ones (t == ([10, 20],)
\* for [10] and [20]); the mutation is not undone.
C4_TupleStoreFailsAfterMutation ==
    (script = "tuple_assign") =>
        /\ apc = "except" =>
              /\ err = "TypeError"
              /\ env["t"] = Tuple(<< List(1) >>)
              /\ heap[1] = lits.xs \o lits.ys
        /\ apc \in {"print_state", "done"} =>
              /\ out[2] = Ev("print", "Success: TypeError caught")
              /\ env["t"] = Tuple(<< List(1) >>)
              /\ heap[1] = lits.xs \o lits.ys
        /\ (apc = "done" /\ lits = [xs |-> <<10>>, ys |-> <<20>>]) =>
              out = << Ev("print", "--- Tuple List Aug-Assign ---"),
                       Ev("print", "Success: TypeError caught"),
                       Ev("print", "State: ([10, 20],)") >>

C4_Witness ==
    /\ script = "tuple_assign" /\ apc = "done"
    /\ lits = [xs |-> <<10>>, ys |-> <<20>>]
    /\ heap[1] = <<10, 20>>

\* C5: l1 = [..]; l2 = l1; l1 += [..] leaves l1 and l2 bound to the same List
\* identity, which carries the old contents followed by the added ones; no
\* List is created for the result, and l2 sees the new contents as soon as
\* the combination is done, before the statement has stored anything.
C5_AliasSeesInPlaceMutation ==
    (script = "list_aug_assign") =>
        /\ apc \in {"aug_store", "print_is", "print_l1", "print_l2", "done"} =>
              /\ env["l2"] = List(1)
              /\ heap[env["l2"].id] = lits.xs \o lits.ys
        /\ apc \in {"print_is", "print_l1", "print_l2", "done"} =>
              /\ env["l1"] = env["l2"]
              /\ heap[env["l1"].id] = lits.xs \o lits.ys
              /\ Len(heap) = 2
        /\ apc \in {"print_l1", "print_l2", "done"} =>
              out[1] = Ev("print", "True")
        /\ (apc = "done" /\ lits = [xs |-> <<1>>, ys |-> <<2>>]) =>
              out = << Ev("print", "True"), Ev("print", "[1, 2]"),
                       Ev("print", "[1, 2]") >>

C5_Witness ==
    /\ script = "list_aug_assign" /\ apc = "done"
    /\ lits = [xs |-> <<1>>, ys |-> <<2>>]
    /\ env["l1"] = env["l2"] /\ heap[env["l2"].id] = <<1, 2>>

\* Index of the first case of the called function that matches the subject
\* (0 if none does).
FirstMatch ==
    LET M == {i \in 1..Len(CasesOf(fn)) : Matches(CasesOf(fn)[i], subject)}
    IN  IF M = {} THEN 0 ELSE CHOOSE i \in M : \A j \in M : i <= j

\* C6: when some case matches the subject, the match statement tries the
\* cases in order up to the first that matches and no later one, and runs
\* exactly one action, that of this first matching case; never more than one
\* action runs.  classify([2, 3]) is 5, classify(1) is "small" and
\* classify("x") is "other".
C6_FirstMatchWins ==
    (script = "match" /\ mpc # "idle") =>
        /\ Len(ran) <= 1
        /\ \A i \in 1..Len(tried) : tried[i] = i /\ (FirstMatch # 0 => i <= FirstMatch)
        /\ (mpc \in {"print", "done"} /\ FirstMatch # 0) =>
              /\ chosen = FirstMatch
              /\ Len(tried) = FirstMatch
              /\ ran = << CasesOf(fn)[FirstMatch].action >>
        /\ (mpc \in {"print", "done"} /\ fn = "classify") =>
              /\ subject = ListV(<<2, 3>>) => mresult = IntV(5)
              /\ subject = IntV(1) => mresult = StrV("small")
              /\ subject = StrV("x") => mresult = StrV("other")
        /\ (mpc = "done" /\ fn = "classify" /\ subject = ListV(<<2, 3>>)) =>
              out = << Ev("print", "5") >>

C6_Witness ==
    /\ script = "match" /\ mpc = "done" /\ fn = "classify"
    /\ subject = ListV(<<2, 3>>) /\ tried = <<1, 2>> /\ ran = <<"a+b">>
    /\ out = << Ev("print", "5") >>

\* C7: in the body of class A, with val = "success" bound there, the
\* iterable [val] of result = [x for x in [val]] is evaluated in the class
\* body's Environment before the comprehension's private Environment is
\* entered: it resolves val to "success" whether or not the module binds a
\* val of its own, no NameError is raised, and result[0] is "success".
C7_OuterIterableSeesClassBody ==
    (script = "class_comp_iterable" /\ form = result_comp) =>
        /\ cerr = "none"
        /\ kpc = "enter" =>
              /\ iter = << StrV("success") >>
              /\ Len(scopes) = 2 /\ scopes[here].kind = "class"
        /\ kpc \in {"print", "done"} =>
              scopes[2].vars["result"] = ListV(<< StrV("success") >>)
        /\ kpc = "done" => out = << Ev("print", "success") >>

C7_Witness ==
    /\ script = "class_comp_iterable" /\ form = result_comp /\ kpc = "done"
    /\ scopes[1].vars["val"] = Unbound
    /\ out = << Ev("print", "success") >>

\* C8: every advance() issued on a Completed frame signals exhaustion to the
\* caller, yields nothing, runs no instruction of the body and leaves the frame
\* Completed, however often it is repeated.
C8_AdvanceCompletedExhausted ==
    [][(gstate = "Completed" /\ Emits(Ev("call", "advance"))) =>
          /\ out' = out \o << Ev("call", "advance"), Ev("raise", "StopIteration") >>
          /\ gstate' = "Completed"
          /\ call' = "none"
          /\ pc' = pc /\ exc' = exc /\ pending' = pending /\ outcome' = outcome
      ]_vars

C8_Witness ==
    /\ gstate = "Completed"
    /\ Len(out) >= 4
    /\ SubSeq(out, Len(out) - 3, Len(out)) =
          << Ev("call", "advance"), Ev("raise", "StopIteration"),
             Ev("call", "advance"), Ev("raise", "StopIteration") >>

\* C9: an operation issued on the generator from inside its own running body
\* is rejected with an error, and the frame's state tag, position and parked
\* exception are what they were before the rejected operation.
C9_ReentryRejected ==
    [][(/\ gstate = "Running" /\ exc = "none"
        /\ pc \in 1..Len(BodyOf(body).code)
        /\ CurInstr.op = "REENTER") =>
          /\ gstate' = "Running"
          /\ pc' = pc /\ pending' = pending /\ call' = call /\ outcome' = outcome
          /\ exc' # "none"
      ]_vars

C9_Witness ==
    /\ gstate = "Running" /\ exc = "ValueError"
    /\ Len(out) > 0 /\ Last(out).ev = "rejected"

\* C10: when the body answers the termination signal of close() with a yield,
\* close() reports GeneratorProtocolViolation, which is neither an ordinary
\* exception nor the exhaustion signal, and close() does not return normally.
C10_YieldOnCloseIsViolation ==
    [][(call = "close" /\ gstate = "Running" /\ gstate' = "Suspended") =>
          /\ out' = Append(out, Ev("raise", "GeneratorProtocolViolation"))
          /\ "GeneratorProtocolViolation" \notin Exceptions \cup {"StopIteration", "GeneratorExit"}
          /\ call' = "none"
      ]_vars

C10_Witness ==
    /\ body = "stubborn_gen" /\ call = "none" /\ gstate = "Suspended"
    /\ Calls = CallSeq(<<"advance", "close">>)
    /\ Last(out) = Ev("raise", "GeneratorProtocolViolation")

\* C11: close() issued on a frame that is NotStarted or Completed returns
\* without raising, runs no instruction of the body (nothing is printed, no
\* finally block runs) and leaves the frame's state tag, position, parked
\* exception and outcome as they were.
C11_CloseIdleIsNoop ==
    [][(gstate \in {"NotStarted", "Completed"} /\ Emits(Ev("call", "close"))) =>
          /\ out' = out \o << Ev("call", "close"), Ev("return", "close") >>
          /\ gstate' = gstate /\ body' = body
          /\ call' = "none"
          /\ pc' = pc /\ exc' = exc /\ pending' = pending /\ outcome' = outcome
      ]_vars

C11_Witness ==
    /\ body = "lifecycle_gen" /\ gstate = "NotStarted"
    /\ out = << Ev("create", "lifecycle_gen"),
                Ev("call", "close"), Ev("return", "close") >>

\* C12: the value of a chained comparison is the conjunction of its adjacent
\* comparisons o_i OP_i o_(i+1): it is True iff every one of them holds and
\* False iff at least one fails, and that value is what is printed.
C12_ValueIsConjunction ==
    (script = "chained_compare" /\ result # "none") =>
        /\ result = "True" <=>
              \A i \in 1..Len(ops) : Holds(ops[i], operands[i], operands[i + 1])
        /\ result = "False" <=>
              \E i \in 1..Len(ops) : ~Holds(ops[i], operands[i], operands[i + 1])
        /\ cpc = "done" => Last(out) = Ev("print", result)

C12_Witness ==
    /\ script = "chained_compare" /\ cpc = "done"
    /\ operands = <<1, 3, 2>> /\ ops = <<"<", "<">>
    /\ result = "False" /\ nloaded = 3

\* C13: a throw(e) on a Suspended frame that no handler of the body takes
\* runs every finally block active at the suspended yield, innermost first
\* and outermost last, before e reaches the caller of throw(); e is the last
\* thing that call reports, and the frame is Completed with e as its outcome.
C13_UncaughtThrowRunsFinallyInnermostFirst ==
    (script = "generator_lifecycle" /\ call = "none") =>
        /\ \A e \in Exceptions :
              (body = "nested_gen" /\ Calls = CallSeq(<<"advance", "throw " \o e>>)) =>
                  /\ out = << Ev("create", "nested_gen"),
                              Ev("call", "advance"), Ev("yield", "start"),
                              Ev("call", "throw " \o e),
                              Ev("print", "inner"), Ev("print", "outer"),
                              Ev("raise", e) >>
                  /\ gstate = "Completed" /\ outcome = e
        /\ (body = "lifecycle_gen" /\ Calls = CallSeq(<<"advance", "throw KeyError">>)) =>
              /\ out = << Ev("create", "lifecycle_gen"),
                          Ev("call", "advance"), Ev("yield", "start"),
                          Ev("call", "throw KeyError"),
                          Ev("print", "cleaned up"), Ev("raise", "KeyError") >>
              /\ gstate = "Completed" /\ outcome = "KeyError"
        /\ \A e \in Exceptions :
              (/\ body = "lifecycle_gen"
               /\ Calls = CallSeq(<<"advance", "throw ValueError", "throw " \o e>>)) =>
                  /\ SubSeq(out, 6, Len(out)) =
                        << Ev("call", "throw " \o e),
                           Ev("print", "cleaned up"), Ev("raise", e) >>
                  /\ gstate = "Completed" /\ outcome = e

C13_Witness ==
    /\ body = "nested_gen" /\ call = "none" /\ gstate = "Completed"
    /\ Calls = CallSeq(<<"advance", "throw KeyError">>)
    /\ outcome = "KeyError"

\* C15 (as stated): the advance() during which the body runs past its end
\* does not signal exhaustion; only the next advance() does.
C15_ExhaustionOnlyOnNextAdvance ==
    [][(/\ call = "advance" /\ gstate = "Running"
        /\ gstate' = "Completed" /\ outcome' = "normal") =>
          ~Emits(Ev("raise", "StopIteration"))
      ]_vars

\* C15 (amended): the advance() during which the body runs past its end
\* itself signals exhaustion, as the last thing it reports, and leaves the
\* frame Completed with a normal outcome.
C15_ExhaustionInCompletingAdvance ==
    [][(/\ call = "advance" /\ gstate = "Running"
        /\ gstate' = "Completed" /\ outcome' = "normal") =>
          /\ out' = Append(out, Ev("raise", "StopIteration"))
          /\ call' = "none"
      ]_vars

C15_Witness ==
    /\ body = "lifecycle_gen" /\ call = "none"
    /\ gstate = "Completed" /\ outcome = "normal"
    /\ Calls = CallSeq(<<"advance", "advance">>)
    /\ out = << Ev("create", "lifecycle_gen"),
                Ev("call", "advance"), Ev("yield", "start"),
                Ev("call", "advance"), Ev("print", "cleaned up"),
                Ev("raise", "StopIteration") >>

\* C16: calling a generator function creates a NotStarted frame and runs
\* nothing of the body: until the caller's first operation the frame is
\* NotStarted at no position and nothing but the creation has been observed;
\* the first advance() enters the body at its first instruction, so what it
\* reports is the body's first yield.
C16_CreationRunsNothing ==
    (script = "generator_lifecycle" /\ body # "none") =>
        /\ ncalls = 0 =>
              /\ gstate = "NotStarted" /\ pc = 0
              /\ exc = "none" /\ pending = "none" /\ outcome = "none"
              /\ out = << Ev("create", body) >>
        /\ (Calls = CallSeq(<<"advance">>) /\ call = "advance" /\ Len(out) = 2) =>
              gstate = "Running" /\ pc = 1
        /\ (Calls = CallSeq(<<"advance">>) /\ call = "none") =>
              /\ out = << Ev("create", body), Ev("call", "advance"),
                          Ev("yield", BodyOf(body).code[1].s) >>
              /\ gstate = "Suspended" /\ pc = 1

C16_Witness ==
    /\ body = "lifecycle_gen" /\ ncalls = 0 /\ gstate = "NotStarted"
    /\ out = << Ev("create", "lifecycle_gen") >>

\* C17: the case [a, b] (a SequenceDestructure of arity 2) matches exactly
\* the Lists and Tuples of two elements, and then a and b are bound to the
\* two elements in order; a String, even one of length 2, a sequence of any
\* other length, or any other Value does not match it and binds nothing.
C17_DestructureMatchesExactArity ==
    (script = "match" /\ Len(tried) >= 2 /\ tried[2] = 2
        /\ CasesOf(fn)[2].kind = "SequenceDestructure") =>
        LET k == Len(CasesOf(fn)[2].names)
            fits == subject.t \in {"List", "Tuple"} /\ Len(subject.items) = k
        IN  /\ (chosen = 2) <=> fits
            /\ fits => /\ binds.a = IntV(subject.items[1])
                       /\ binds.b = IntV(subject.items[2])
                       /\ mpc \in {"print", "done"} =>
                            mresult = IntV(subject.items[1] + subject.items[2])
            /\ ~fits => binds = [a |-> NoneV, b |-> NoneV]
            /\ subject.t = "Str" => chosen # 2

C17_Witness ==
    /\ fn = "classify" /\ subject = TupleV(<<1, 2>>) /\ chosen = 2
    /\ binds = [a |-> IntV(1), b |-> IntV(2)] /\ mpc = "done"
    /\ out = << Ev("print", "3") >>

\* C18: when a match has no Wildcard case and the subject matches none of
\* its cases, every case has been tried in order, none is chosen, no action
\* runs, no name is bound and no error is raised; evaluation goes on after
\* the match (the function returns None, which is printed).
C18_UnmatchedIsSilent ==
    (fn = "classify_strict" /\ FirstMatch = 0 /\ mpc \in {"print", "done"}) =>
        /\ tried = <<1, 2>>
        /\ chosen = 0
        /\ ran = << >>
        /\ binds = [a |-> NoneV, b |-> NoneV]
        /\ mresult = NoneV
        /\ mpc = "print" => out = << >>
        /\ mpc = "done" => out = << Ev("print", "None") >>

C18_Witness ==
    /\ fn = "classify_strict" /\ subject = StrV("ab") /\ mpc = "done"
    /\ tried = <<1, 2>> /\ ran = << >> /\ out = << Ev("print", "None") >>

\* C19: in a comprehension written in a class body, the element expression,
\* the if-condition and the iterable of a later for-clause run in the
\* comprehension's private Environment and do not see a name bound only in
\* the class body: with no module-level val they end in an unresolved-name
\* error and print nothing, and with a module-level val they see that one,
\* never the class body's "success".  The same name in the first iterable
\* resolves to the class body's binding.
C19_InnerPartsMissClassBody ==
    script = "class_comp_iterable" =>
        /\ (kpc = "done" /\ form \in {elt_comp, cond_comp, inner_comp}
                /\ scopes[1].vars["val"] = Unbound) =>
              /\ cerr = "NameError"
              /\ out = << Ev("raise", "NameError") >>
              /\ acc = << >>
              /\ scopes[here].kind = "function"
              /\ scopes[scopes[here].parent].kind = "class"
              /\ scopes[scopes[here].parent].vars["val"] = StrV("success")
        /\ (kpc = "done" /\ form \in {elt_comp, inner_comp}
                /\ scopes[1].vars["val"] # Unbound) =>
              cerr = "none" /\ out = << Ev("print", "global") >>
        /\ (kpc = "done" /\ form = cond_comp /\ scopes[1].vars["val"] # Unbound) =>
              cerr = "none" /\ out = << Ev("print", "lit") >>
        /\ (kpc = "done" /\ form = result_comp) =>
              cerr = "none" /\ out = << Ev("print", "success") >>

C19_Witness ==
    /\ script = "class_comp_iterable" /\ form = cond_comp /\ kpc = "done"
    /\ scopes[1].vars["val"] = Unbound
    /\ scopes[2].vars["val"] = StrV("success")
    /\ cerr = "NameError" /\ out = << Ev("raise", "NameError") >>

\* How often event e has been observed.
Count(e) == Cardinality({i \in 1..Len(out) : out[i] = e})

\* C20: over every sequence of advance(), throw() and close() on one
\* lifecycle_gen generator, "cleaned up" is printed at most once; it has been
\* printed exactly once whenever the generator is Completed after an
\* advance() entered its body (its first yield was reached), and not at all
\* while the body has not been entered; and from Completed every further
\* call leaves the frame Completed at the same position with the same
\* outcome and observes nothing but the call and its report to the caller.
C20_FinallyOncePerLifecycle ==
    /\ [](body = "lifecycle_gen" =>
            /\ Count(Ev("print", "cleaned up")) <= 1
            /\ (gstate = "Completed" /\ Count(Ev("yield", "start")) = 1) =>
                  Count(Ev("print", "cleaned up")) = 1
            /\ Count(Ev("yield", "start")) = 0 =>
                  Count(Ev("print", "cleaned up")) = 0
            /\ Count(Ev("yield", "start")) <= 1)
    /\ [][(body = "lifecycle_gen" /\ gstate = "Completed") =>
            /\ gstate' = "Completed" /\ body' = body
            /\ pc' = pc /\ outcome' = outcome /\ call' = "none"
            /\ Len(out') = Len(out) + 2
            /\ out'[Len(out) + 1].ev = "call"
            /\ out'[Len(out) + 2].ev \in {"raise", "return"}
            /\ SubSeq(out', 1, Len(out)) = out ]_vars

C20_Witness ==
    /\ body = "lifecycle_gen" /\ gstate = "Completed"
    /\ Calls = CallSeq(<<"advance", "throw ValueError", "close", "advance">>)
    /\ Count(Ev("print", "cleaned up")) = 1
    /\ Last(out) = Ev("raise", "StopIteration")

\* The steps of one augmented assignment on a target of the given kind.
StepsOf(kind) ==
    CASE kind = "name"      -> << "load", "value", "combine", "store" >>
      [] kind = "subscript" -> << "container", "index", "load", "value", "combine", "store" >>
      [] OTHER              -> << "container", "load", "value", "combine", "store" >>

\* C14: in every augmented assignment, on a bare name (l1 += [..],
\* count += 1), an attribute (o.x += [..]) and a subscript (t[0] += [..]),
\* what the statement does is always an initial part of: container and
\* index/key of the target evaluated, each once; current value loaded;
\* right-hand side evaluated; mutation or computation; store.  So when the
\* store is attempted the mutation or computation is already done (the List
\* already carries the added elements, the sum is already computed, the slot
\* still holds the old value), the store is the last step, and the target is
\* not evaluated a second time for it, whether the store succeeds or fails.
C14_TargetOnceCombineBeforeStore ==
    script \in AugScripts =>
        LET full == StepsOf(AugStmt.kind)
        IN  /\ \E k \in 0..Len(full) : steps = SubSeq(full, 1, k)
            /\ apc = "aug_store" =>
                  /\ steps = SubSeq(full, 1, Len(full) - 1)
                  /\ cur.t = "List" =>
                        /\ new = cur
                        /\ Len(heap[cur.id]) >= Len(lits.ys)
                        /\ heap[cur.id] = lits.xs \o lits.ys
                  /\ cur.t = "Int" =>
                        new = Num(cur.id + 1) /\ env[AugStmt.slot] = cur
                  /\ AugStmt.kind # "name" => tgt.cont = env[AugStmt.name]
            /\ apc \in {"except", "print_state", "print_is", "print_l1",
                        "print_l2", "print_attr", "done"} => steps = full
            /\ (script = "loops" /\ apc = "done") => env["count"] = Num(LoopLimit)
            /\ (script = "attr_aug_assign" /\ apc \in {"print_attr", "done"}) =>
                  env["o.x"] = cur /\ env["o"] = tgt.cont

C14_Witness ==
    /\ script = "tuple_assign" /\ apc = "except" /\ err = "TypeError"
    /\ steps = << "container", "index", "load", "value", "combine", "store" >>
    /\ lits = [xs |-> <<10>>, ys |-> <<20>>]
    /\ heap[cur.id] = <<10, 20>>

====
